---- MODULE Spec2Model ----
(***************************************************************************)
(* A model of the web research agent: the tool registry / executor         *)
(* (src/src/base_agent.py), the research pipeline                          *)
(* (src/src/simple_research_agent.py) and the tools it drives              *)
(* (src/src/tools.py).                                                     *)
(*                                                                         *)
(* Python values are modelled as follows.                                  *)
(*   str            a TLA+ string                                          *)
(*   None / x       an optional field is <<>> (None) or <<x>>              *)
(*   tool results   records tagged by ty: "list", "str" or "dict"          *)
(*   an outcome     [kind |-> "return", value |-> v] or                    *)
(*                  [kind |-> "raise", exc |-> [cls |-> c, msg |-> m]]     *)
(* The web (the search provider's answer, a site's answer to a GET) is an  *)
(* input of every step that performs a request.                            *)
(***************************************************************************)
EXTENDS Integers, Sequences, FiniteSets, TLC

VARIABLES tools, history, calls, last, ops, runs

vars == <<tools, history, calls, last, ops, runs>>

(* ---------------------------------------------------------------- bounds *)

\* Number of calls made on the agent in one run of the model.
MaxOps == 3

\* Number of those calls that are calls of research.
MaxRuns == 1

\* Largest num_sources / num_results a caller passes.
MaxSources == 2

\* Largest number of result blocks on the provider's page.
MaxBlocks == 2

(* ------------------------------------------------------- Python values *)

None == <<>>

Some(x) == <<x>>

PyList(items) == [ty |-> "list", items |-> items]

PyStr(s) == [ty |-> "str", s |-> s]

Return(v) == [kind |-> "return", value |-> v]

Raise(cls, msg) == [kind |-> "raise", exc |-> [cls |-> cls, msg |-> msg]]

\* The exception classes that occur, each with its base class.
BaseOf(cls) ==
    CASE cls = "Timeout" -> "RequestException"
      [] cls = "ConnectionError" -> "RequestException"
      [] cls = "HTTPError" -> "RequestException"
      [] cls = "RequestException" -> "Exception"
      [] cls = "FeatureNotFound" -> "Exception"
      [] cls = "TypeError" -> "Exception"
      [] cls = "KeyError" -> "Exception"
      [] cls = "AttributeError" -> "Exception"
      [] cls = "RuntimeError" -> "Exception"
      [] OTHER -> "BaseException"

RECURSIVE IsInstance(_, _)
\* isinstance(e, base), as an except clause decides it.
IsInstance(cls, base) ==
    IF cls = base THEN TRUE
    ELSE IF cls = "BaseException" THEN FALSE
    ELSE IsInstance(BaseOf(cls), base)

RECURSIVE Join(_, _)
\* sep.join(parts) for a sequence of strings.
Join(sep, parts) ==
    IF parts = <<>> THEN ""
    ELSE IF Len(parts) = 1 THEN parts[1]
    ELSE parts[1] \o sep \o Join(sep, Tail(parts))

RECURSIVE Rep(_, _)
\* s * n
Rep(s, n) ==
    IF n <= 0 THEN ""
    ELSE LET h == Rep(s, n \div 2) IN
         IF n % 2 = 0 THEN h \o h ELSE h \o h \o s

RECURSIVE Strip(_)
\* str.strip() for blanks.
Strip(s) ==
    IF Len(s) = 0 THEN s
    ELSE IF SubSeq(s, 1, 1) = " " THEN Strip(SubSeq(s, 2, Len(s)))
    ELSE IF SubSeq(s, Len(s), Len(s)) = " " THEN Strip(SubSeq(s, 1, Len(s) - 1))
    ELSE s

\* str(n) for the small numbers the model prints.
IntStr(n) ==
    CASE n = 0 -> "0" [] n = 1 -> "1" [] n = 2 -> "2" [] n = 3 -> "3"
      [] n = 4 -> "4" [] n = 5 -> "5" [] n = 10 -> "10" [] OTHER -> "?"

\* Python's slice xs[:n] of a sequence, for any integer n.
SliceTo(xs, n) ==
    IF n >= 0 THEN SubSeq(xs, 1, IF n < Len(xs) THEN n ELSE Len(xs))
    ELSE SubSeq(xs, 1, IF Len(xs) + n > 0 THEN Len(xs) + n ELSE 0)

(* ------------------------------------------------------------ the web *)

\* A markup document is a sequence of elements, each a tag with its text.
Elem(tag, text) == [tag |-> tag, text |-> text]

ShortPage == <<Elem("h1", "Hello"), Elem("script", "var x"), Elem("p", " World ")>>

LongPage == <<Elem("nav", "menu"), Elem("p", Rep("x", 600))>>

\* a page whose text is exactly as long as a preview may be without a cut
EdgePage == <<Elem("p", Rep("y", 500))>>

BlankPage == <<Elem("style", "p {}"), Elem("p", " ")>>

\* One result block of the provider's page: the anchors it holds.
Block(title, url, snippet) ==
    [title_elem |-> title, url_elem |-> url, snippet_elem |-> snippet]

BlockA == Block(Some("A"), Some(Some("http://a")), Some("about a"))

BlockB == Block(None, Some(Some("http://b")), None)

\* a block with no result__url anchor
BlockNoAnchor == Block(Some("C"), None, Some("about c"))

\* a block whose result__url anchor carries no href
BlockNoHref == Block(Some("D"), Some(None), Some("about d"))

\* What the search provider does with one POST.
SearchWorld(post, status, parser, blocks) ==
    [post |-> post, status |-> status, parser |-> parser, blocks |-> blocks]

\* a block whose result__url anchor has an empty href
BlockEmptyHref == Block(None, Some(Some("")), Some("about e"))

Blocks == {BlockA, BlockB, BlockNoAnchor, BlockNoHref, BlockEmptyHref}

RECURSIVE BlockSeqs(_)
\* The result pages of at most n blocks.
BlockSeqs(n) ==
    IF n = 0 THEN {<<>>}
    ELSE LET shorter == BlockSeqs(n - 1) IN
         shorter \cup {Append(p, b) : p \in {q \in shorter : Len(q) = n - 1},
                                      b \in Blocks}

\* Every answer of the provider: a page of blocks, or a failure of the
\* request, of its status, or of the parser.
SearchWorlds ==
    {SearchWorld("ok", 200, "ok", p) : p \in BlockSeqs(MaxBlocks)}
    \cup { SearchWorld("timeout", 0, "ok", <<>>),
           SearchWorld("conn", 0, "ok", <<>>),
           SearchWorld("ok", 503, "ok", <<BlockA>>),
           SearchWorld("ok", 200, "missing", <<BlockA>>) }

\* The answers of the provider the agent is run against.
AgentSearchWorlds ==
    { SearchWorld("ok", 200, "ok", <<BlockA, BlockB>>),
      SearchWorld("ok", 200, "ok", <<BlockNoAnchor, BlockB>>),
      SearchWorld("timeout", 0, "ok", <<>>) }

\* What a site does with one GET.
SiteWorld(get, status, text) == [get |-> get, status |-> status, text |-> text]

SiteWorlds ==
    { SiteWorld("ok", 200, ShortPage),
      SiteWorld("ok", 200, LongPage),
      SiteWorld("timeout", 0, <<>>),
      SiteWorld("ok", 404, BlankPage) }

\* The answers of the sites a run of research meets.
AgentSiteWorlds ==
    { SiteWorld("ok", 200, ShortPage),
      SiteWorld("ok", 200, LongPage),
      SiteWorld("ok", 200, EdgePage),
      SiteWorld("timeout", 0, <<>>) }

(* ------------------------------------------------------------ tools.py *)

\* requests.get / requests.post followed by raise_for_status().
Request(w, verb) ==
    IF w[verb] = "timeout" THEN Raise("Timeout", "timed out")
    ELSE IF w[verb] = "conn" THEN Raise("ConnectionError", "connection refused")
    ELSE IF w.status >= 400
         THEN Raise("HTTPError", IntStr(w.status \div 100) \o "xx error")
    ELSE Return(w)

FetchFailure(error) ==
    [ty |-> "dict", success |-> FALSE, content |-> None,
     status_code |-> None, error |-> Some(error)]

FetchWebpage(url, timeout, w) ==
    LET r == Request(w, "get") IN
    IF r.kind = "return"
    THEN Return([ty |-> "dict", success |-> TRUE, content |-> Some(w.text),
                 status_code |-> Some(w.status), error |-> None])
    ELSE IF IsInstance(r.exc.cls, "Timeout")
    THEN Return(FetchFailure("Timeout: Website did not respond within "
                             \o IntStr(timeout) \o " seconds"))
    ELSE IF IsInstance(r.exc.cls, "RequestException")
    THEN Return(FetchFailure("Request failed: " \o r.exc.msg))
    ELSE r

RemovedTags == {"script", "style", "nav", "footer", "header", "aside"}

RECURSIVE Chunks(_)
\* The stripped, non-empty text nodes of the elements that are kept.
Chunks(html) ==
    IF html = <<>> THEN <<>>
    ELSE LET e == Head(html)
             c == Strip(e.text)
         IN  IF e.tag \in RemovedTags \/ c = "" THEN Chunks(Tail(html))
             ELSE <<c>> \o Chunks(Tail(html))

ExtractText(html) == Return(PyStr(Join("\n", Chunks(html))))

SearchResult(title, url, snippet) ==
    [title |-> title, url |-> url, snippet |-> snippet]

RECURSIVE Collect(_)
\* The loop over the result blocks: a block without a URL is left out.
Collect(blocks) ==
    IF blocks = <<>> THEN <<>>
    ELSE LET b == Head(blocks)
             title == IF b.title_elem # None THEN Strip(b.title_elem[1])
                      ELSE "No title"
             href == IF b.url_elem # None THEN b.url_elem[1] ELSE Some("")
             snippet == IF b.snippet_elem # None THEN Strip(b.snippet_elem[1])
                        ELSE "No description"
         IN  IF href # None /\ href[1] # ""
             THEN <<SearchResult(title, href[1], snippet)>> \o Collect(Tail(blocks))
             ELSE Collect(Tail(blocks))

\* The body of search_web's try block.
SearchWebBody(query, num_results, w) ==
    LET r == Request(w, "post") IN
    IF r.kind = "raise" THEN r
    ELSE IF w.parser = "missing"
    THEN Raise("FeatureNotFound", "Couldn't find a tree builder: lxml")
    ELSE LET search_results == Collect(SliceTo(w.blocks, num_results)) IN
         IF search_results = <<>>
         THEN Return(PyList(<<SearchResult("No results found", "",
                                "No search results for \"" \o query \o "\"")>>))
         ELSE Return(PyList(search_results))

\* A slip: only the failures of the request are caught.
SearchCatchesRequests(cls) == IsInstance(cls, "RequestException")

\* The exceptions search_web's except clause catches.
SearchCatches(cls) == IsInstance(cls, "Exception")

SearchWeb(query, num_results, w) ==
    LET r == SearchWebBody(query, num_results, w) IN
    IF r.kind = "raise" /\ SearchCatches(r.exc.cls)
    THEN Return(PyList(<<SearchResult("Search Error", "",
                           "Search failed: " \o r.exc.msg)>>))
    ELSE r

(* ------------------------------------------------------- the callables *)

Urls == {"http://a", "http://b"}

\* The world during one call on the agent: what the search provider
\* answers, and what each site answers.
Worlds == [search : AgentSearchWorlds, site : [Urls -> AgentSiteWorlds]]

\* The functions a caller hands to add_tool, besides those of tools.py:
\*   def raiser(**kwargs): raise RuntimeError("boom")
\*   def no_hits(**kwargs): return []
UserCallables == {"raiser", "no_hits"}

Required(f) ==
    CASE f = "search_web" -> {"query"}
      [] f = "fetch_webpage" -> {"url"}
      [] f = "extract_text" -> {"html"}
      [] f = "extract_links" -> {"html", "base_url"}
      [] OTHER -> {}

Optional(f) ==
    CASE f = "search_web" -> {"num_results"}
      [] f = "fetch_webpage" -> {"timeout"}
      [] OTHER -> {}

\* f(**kwargs): binding the keyword arguments to f's parameters, then
\* running f. extract_links is in the registry, and no caller of the model
\* runs it.
Invoke(f, kwargs, w) ==
    LET given == DOMAIN kwargs
        extra == given \ (Required(f) \cup Optional(f))
        missing == Required(f) \ given
    IN  IF f = "raiser" THEN Raise("RuntimeError", "boom")
        ELSE IF f = "no_hits" THEN Return(PyList(<<>>))
        ELSE IF extra # {}
        THEN Raise("TypeError", f \o "() got an unexpected keyword argument '"
                                \o (CHOOSE k \in extra : TRUE) \o "'")
        ELSE IF missing # {}
        THEN Raise("TypeError", f \o "() missing 1 required positional argument: '"
                                \o (CHOOSE k \in missing : TRUE) \o "'")
        ELSE IF f = "search_web"
        THEN SearchWeb(kwargs.query,
                       IF "num_results" \in given THEN kwargs.num_results ELSE 5,
                       w.search)
        ELSE IF f = "fetch_webpage"
        THEN IF kwargs.url \in Urls
             THEN FetchWebpage(kwargs.url,
                               IF "timeout" \in given THEN kwargs.timeout ELSE 10,
                               w.site[kwargs.url])
             ELSE Return(FetchFailure("Request failed: Invalid URL '"
                                      \o kwargs.url \o "'"))
        ELSE CASE f = "extract_text" -> ExtractText(kwargs.html)

(* -------------------------------------------------------- base_agent.py *)

ExecutionRecord(tool_name, kwargs, result) ==
    [tool |-> tool_name, args |-> kwargs, result |-> result]

ToolFailure(error) == [ty |-> "dict", success |-> FALSE, error |-> error]

\* The exceptions execute_tool's except clause catches.
ExecuteCatches(cls) == IsInstance(cls, "Exception")

\* A slip: only results that are not failure-shaped are recorded.
RecordedOnSuccess(h, tool_name, kwargs, r) ==
    IF r.kind = "return"
       /\ ~(r.value.ty = "dict" /\ ~r.value.success)
    THEN Append(h, ExecutionRecord(tool_name, kwargs, r.value))
    ELSE h

\* A slip: the call is recorded whatever its outcome.
RecordedAlways(h, tool_name, kwargs, r) ==
    IF r.kind = "return"
    THEN Append(h, ExecutionRecord(tool_name, kwargs, r.value))
    ELSE Append(h, ExecutionRecord(tool_name, kwargs,
                                   ToolFailure("Tool failed: " \o r.exc.msg)))

\* What a call of the callable leaves in the history, by its outcome.
Recorded(h, tool_name, kwargs, r) ==
    IF r.kind = "return"
    THEN Append(h, ExecutionRecord(tool_name, kwargs, r.value))
    ELSE h

\* A slip: the failed lookup is recorded like a call.
NotFoundRecorded(h, c, tool_name, kwargs) ==
    LET failure == ToolFailure("Tool '" \o tool_name \o "' not found") IN
    [history |-> Append(h, ExecutionRecord(tool_name, kwargs, failure)),
     calls |-> c, out |-> Return(failure)]

\* execute_tool for a name that is not in the registry.
NotFound(h, c, tool_name, kwargs) ==
    [history |-> h, calls |-> c,
     out |-> Return(ToolFailure("Tool '" \o tool_name \o "' not found"))]

\* The try block and its except clause, for a callable whose outcome is r.
Called(h, c, tool_name, kwargs, r) ==
    [history |-> Recorded(h, tool_name, kwargs, r),
     calls |-> Append(c, [tool |-> tool_name, args |-> kwargs, outcome |-> r]),
     out |-> IF r.kind = "raise" /\ ExecuteCatches(r.exc.cls)
             THEN Return(ToolFailure("Tool failed: " \o r.exc.msg))
             ELSE r]

\* execute_tool(tool_name, **kwargs) on an agent with registry t, history h
\* and invocation log c: the history and log it leaves and its outcome.
ExecuteTool(t, h, c, tool_name, kwargs, w) ==
    IF tool_name \notin DOMAIN t
    THEN NotFound(h, c, tool_name, kwargs)
    ELSE Called(h, c, tool_name, kwargs, Invoke(t[tool_name], kwargs, w))

\* The registry SimpleResearchAgent.__init__ hands to BaseAgent.__init__.
AgentTools ==
    [n \in {"search", "fetch", "extract_text", "extract_links"} |->
        CASE n = "search" -> "search_web"
          [] n = "fetch" -> "fetch_webpage"
          [] n = "extract_text" -> "extract_text"
          [] OTHER -> "extract_links"]

\* A slip: reset() keeps the oldest record.
ClearedButOne(h) == IF h = <<>> THEN h ELSE <<Head(h)>>

\* The history reset() leaves.
Cleared(h) == <<>>

(* ------------------------------------------- simple_research_agent.py *)

\* bool(v)
Truthy(v) ==
    CASE v.ty = "list" -> v.items # <<>>
      [] v.ty = "str" -> v.s # ""
      [] OTHER -> TRUE

\* len(v); a dict's length is the number of its keys.
PyLen(v) ==
    CASE v.ty = "list" -> Len(v.items)
      [] v.ty = "str" -> Len(v.s)
      [] OTHER -> Cardinality(DOMAIN v \ {"ty"})

\* str(v), as an f-string prints v.
PyFormat(v) ==
    CASE v.ty = "str" -> v.s
      [] v.ty = "list" -> IF v.items = <<>> THEN "[]" ELSE "[...]"
      [] OTHER ->
            IF DOMAIN v = {"ty", "success", "error"}
            THEN "{'success': False, 'error': '" \o v.error \o "'}"
            ELSE "{...}"

\* v.get(key): only a dict has the method.
PyGet(v, key) ==
    IF v.ty = "dict"
    THEN Return(IF key \in DOMAIN v THEN Some(v[key]) ELSE None)
    ELSE Raise("AttributeError",
               "'" \o v.ty \o "' object has no attribute 'get'")

\* search_results[0].get('url') == '', the second half of the test that
\* ends the run early: its value, or the exception it raises.
FirstUrlEmpty(search_results) ==
    IF search_results.ty = "list"
    THEN Return(search_results.items[1].url = "")
    ELSE IF search_results.ty = "dict" THEN Raise("KeyError", "0")
    ELSE Raise("AttributeError", "'str' object has no attribute 'get'")

\* A slip: a text of exactly 500 characters is cut too.
PreviewFrom500(text) ==
    IF PyLen(text) >= 500
    THEN IF text.ty = "str"
         THEN Return(PyStr(SubSeq(text.s, 1, 500) \o "..."))
         ELSE Raise("TypeError", "unsupported operand or unhashable slice")
    ELSE Return(text)

\* preview = text[:500] + '...' if len(text) > 500 else text
Preview(text) ==
    IF PyLen(text) > 500
    THEN IF text.ty = "str"
         THEN Return(PyStr(SubSeq(text.s, 1, 500) \o "..."))
         ELSE Raise("TypeError", "unsupported operand or unhashable slice")
    ELSE Return(text)

Source(result) ==
    [title |-> result.title, url |-> result.url, snippet |-> result.snippet]

Finding(result, text, preview) ==
    [source |-> result.title, url |-> result.url, text |-> text,
     preview |-> preview]

\* A slip: the first failed fetch ends the loop.
BreakAfterFailedFetch == "break"

\* What the loop does after a fetch that did not succeed.
AfterFailedFetch == "continue"

RECURSIVE FetchLoop(_, _, _, _)

\* The loop's state st holds the history, the invocation log, sources and
\* findings so far; ctl tells how a pass of the loop body ended: "continue",
\* "break", or "raise" with the exception in exc.
Raised(st, exc) == [st EXCEPT !.ctl = "raise", !.exc = exc]

\* A slip: the loop calls the tool's function itself, past execute_tool, so
\* the history is not touched.
AfterPastTheLedger(st, e) == [st EXCEPT !.calls = e.calls]

\* The loop's state after a return of execute_tool, e.
After(st, e) == [st EXCEPT !.history = e.history, !.calls = e.calls]

\* The end of a pass: the preview, then the two appends.
Appended(st, result, text, preview) ==
    IF preview.kind = "raise" THEN Raised(st, preview.exc)
    ELSE [st EXCEPT !.ctl = "continue",
                    !.sources = Append(@, Source(result)),
                    !.findings = Append(@, Finding(result, text, preview.value))]

\* A pass from the return of execute_tool('extract_text', ...), x.
Extracted(st, result, x) ==
    IF x.out.kind = "raise" THEN Raised(After(st, x), x.out.exc)
    ELSE Appended(After(st, x), result, x.out.value, Preview(x.out.value))

\* A pass from the test of the page: ok is page.get('success').
Tested(t, st, result, w, page, ok) ==
    IF ok.kind = "raise" THEN Raised(st, ok.exc)
    ELSE IF ok.value = None \/ ok.value = Some(FALSE)
    THEN [st EXCEPT !.ctl = AfterFailedFetch]
    ELSE Extracted(st, result,
                   ExecuteTool(t, st.history, st.calls, "extract_text",
                               [html |-> page.content[1]], w))

\* A pass from the return of execute_tool('fetch', ...), f.
Fetched(t, st, result, w, f) ==
    IF f.out.kind = "raise" THEN Raised(After(st, f), f.out.exc)
    ELSE Tested(t, After(st, f), result, w, f.out.value,
                PyGet(f.out.value, "success"))

\* One pass of the loop body for one search result.
LoopBody(t, st, result, w) ==
    Fetched(t, st, result, w,
            ExecuteTool(t, st.history, st.calls, "fetch", [url |-> result.url], w))

\* The loop from the state a pass left.
Continued(t, st, rest, w) ==
    IF st.ctl = "continue" THEN FetchLoop(t, st, rest, w) ELSE st

\* for i, result in enumerate(search_results[:num_sources], 1): ...
FetchLoop(t, st, results, w) ==
    IF results = <<>> THEN st
    ELSE Continued(t, LoopBody(t, st, Head(results), w), Tail(results), w)

RECURSIVE SummaryParts(_, _)
\* The three lines the digest holds for each finding, from the i-th on.
SummaryParts(findings, i) ==
    IF i > Len(findings) THEN <<>>
    ELSE << "\n" \o IntStr(i) \o ". " \o findings[i].source,
            "   URL: " \o findings[i].url,
            "   Preview: " \o PyFormat(findings[i].preview) \o "\n" >>
         \o SummaryParts(findings, i + 1)

\* A slip: no test for the empty list of findings.
SummaryWithoutEmptyCase(question, findings) ==
    Join("\n",
         << "Research Results for: '" \o question \o "'",
            "\nFound " \o IntStr(Len(findings)) \o " source(s):\n" >>)

CreateSimpleSummary(question, findings) ==
    IF findings = <<>> THEN "No information found."
    ELSE Join("\n",
              << "Research Results for: '" \o question \o "'",
                 "\nFound " \o IntStr(Len(findings)) \o " source(s):\n" >>
              \o SummaryParts(findings, 1)
              \o << "\nNote: This is raw information from "
                       \o IntStr(Len(findings)) \o " source(s).",
                    "For true understanding and synthesis, consider using AI (Claude)." >>)

ResearchResult(question, sources, findings, summary) ==
    [ty |-> "dict", question |-> question, sources |-> sources,
     findings |-> findings, summary |-> summary]

\* A slip: only the empty sequence ends the run. A value that is not a
\* sequence then reaches search_results[:num_sources], which raises.
NoResultsWhenEmpty(search_results) ==
    IF ~Truthy(search_results) THEN Return(TRUE)
    ELSE IF search_results.ty = "list" THEN Return(FALSE)
    ELSE Raise("TypeError", "unhashable type: 'slice'")

\* The test that ends the run after the search step.
NoResults(search_results) ==
    IF ~Truthy(search_results) THEN Return(TRUE)
    ELSE FirstUrlEmpty(search_results)

\* The return of research after the loop, which left st.
Summarized(question, st) ==
    [history |-> st.history, calls |-> st.calls,
     out |-> IF st.ctl = "raise" THEN [kind |-> "raise", exc |-> st.exc]
             ELSE Return(ResearchResult(question, st.sources, st.findings,
                            CreateSimpleSummary(question, st.findings)))]

\* research from the test of the search results: early is its outcome.
Decided(t, s, question, num_sources, w, early) ==
    IF early.kind = "raise"
    THEN [history |-> s.history, calls |-> s.calls, out |-> early]
    ELSE IF early.value
    THEN [history |-> s.history, calls |-> s.calls,
          out |-> Return(ResearchResult(question, <<>>, <<>>, "No results found"))]
    ELSE Summarized(question,
            FetchLoop(t, [history |-> s.history, calls |-> s.calls,
                          sources |-> <<>>, findings |-> <<>>,
                          ctl |-> "continue", exc |-> None],
                      SliceTo(s.out.value.items, num_sources), w))

\* research from the return of execute_tool('search', ...), s.
Searching(t, s, question, num_sources, w) ==
    IF s.out.kind = "raise" THEN s
    ELSE Decided(t, s, question, num_sources, w, NoResults(s.out.value))

\* research(question, num_sources) on an agent with registry t, history h
\* and invocation log c: the history and log it leaves and its outcome.
Research(t, h, c, question, num_sources, w) ==
    Searching(t, ExecuteTool(t, h, c, "search",
                             [query |-> question, num_results |-> num_sources], w),
              question, num_sources, w)

Init ==
    /\ tools = AgentTools
    /\ history = <<>>
    /\ calls = <<>>
    /\ last = [op |-> "init"]
    /\ ops = 0
    /\ runs = 0

Questions == {"q"}

\* The calls of execute_tool that callers make: a tool name with its
\* keyword arguments.
ExecInputs ==
    { [name |-> "search", kwargs |-> [query |-> "q", num_results |-> MaxSources]],
      [name |-> "search", kwargs |-> << >>],
      [name |-> "fetch", kwargs |-> [url |-> "http://a"]],
      [name |-> "extract_text", kwargs |-> [html |-> ShortPage]],
      [name |-> "extract_text", kwargs |-> [url |-> "http://a"]],
      [name |-> "summarize", kwargs |-> [query |-> "q"]] }

\* The worlds that differ in what a call with these arguments can read.
WorldsFor(kwargs) ==
    LET s0 == SearchWorld("ok", 200, "ok", <<BlockA, BlockB>>)
        g0 == SiteWorld("ok", 200, ShortPage)
    IN  IF "query" \in DOMAIN kwargs
        THEN {[search |-> x, site |-> [u \in Urls |-> g0]] : x \in AgentSearchWorlds}
        ELSE IF "url" \in DOMAIN kwargs
        THEN {[search |-> s0, site |-> [u \in Urls |-> g]] : g \in SiteWorlds}
        ELSE {[search |-> s0, site |-> [u \in Urls |-> g0]]}

\* The registry add_tool(name, function) leaves.
Registered(t, name, function) ==
    [n \in DOMAIN t \cup {name} |-> IF n = name THEN function ELSE t[n]]

add_tool ==
    /\ ops < MaxOps
    /\ \E name \in {"search", "fetch", "extract_text", "summarize"},
          function \in UserCallables :
          /\ tools' = Registered(tools, name, function)
          /\ last' = [op |-> "add_tool", name |-> name, function |-> function]
    /\ ops' = ops + 1
    /\ UNCHANGED <<history, calls, runs>>

execute_tool ==
    /\ ops < MaxOps
    /\ \E in \in ExecInputs :
       \E w \in WorldsFor(in.kwargs) :
          \E e \in {ExecuteTool(tools, history, calls, in.name, in.kwargs, w)} :
          /\ history' = e.history
          /\ calls' = e.calls
          /\ last' = [op |-> "execute_tool", name |-> in.name,
                      args |-> in.kwargs, out |-> e.out]
    /\ ops' = ops + 1
    /\ UNCHANGED <<tools, runs>>

get_history ==
    /\ ops < MaxOps
    /\ last' = [op |-> "get_history", out |-> Return(history)]
    /\ ops' = ops + 1
    /\ UNCHANGED <<tools, history, calls, runs>>

reset ==
    /\ ops < MaxOps
    /\ history' = Cleared(history)
    /\ calls' = <<>>
    /\ last' = [op |-> "reset"]
    /\ ops' = ops + 1
    /\ UNCHANGED <<tools, runs>>

research ==
    /\ ops < MaxOps
    /\ runs < MaxRuns
    /\ \E question \in Questions, num_sources \in 0..MaxSources, w \in Worlds :
          \E r \in {Research(tools, history, calls, question, num_sources, w)} :
          /\ history' = r.history
          /\ calls' = r.calls
          /\ last' = [op |-> "research", question |-> question,
                      num_sources |-> num_sources, out |-> r.out,
                      hbase |-> Len(history), cbase |-> Len(calls)]
    /\ ops' = ops + 1
    /\ runs' = runs + 1
    /\ UNCHANGED tools

\* The executor: calls of add_tool, execute_tool, get_history and reset.
Next == add_tool \/ execute_tool \/ get_history \/ reset

Spec == Init /\ [][Next]_vars

\* The research agent: calls of add_tool, research and reset.
NextResearch == add_tool \/ research \/ reset

SpecResearch == Init /\ [][NextResearch]_vars

\* search_web as a function of its arguments and the provider's answer.
InitSearch ==
    /\ tools = AgentTools
    /\ history = <<>>
    /\ calls = <<>>
    /\ ops = 0
    /\ runs = 0
    /\ \E query \in Questions, num_results \in 0..MaxSources, w \in SearchWorlds :
          last = [op |-> "input", query |-> query, num_results |-> num_results,
                  w |-> w]

search_web ==
    /\ last.op = "input"
    /\ last' = [op |-> "search_web", query |-> last.query,
                num_results |-> last.num_results, w |-> last.w,
                out |-> SearchWeb(last.query, last.num_results, last.w)]
    /\ UNCHANGED <<tools, history, calls, ops, runs>>

NextSearch == search_web

SpecSearch == InitSearch /\ [][NextSearch]_vars

(* ------------------------------------------------------------- claims *)

\* The invocation of a callable that the step just taken made last.
LastCall == calls[Len(calls)]

\* The step just taken was a call of execute_tool that reached a callable.
Invoked ==
    /\ last'.op = "execute_tool"
    /\ ops' = ops + 1
    /\ Len(calls') = Len(calls) + 1

\* C1: execute_tool with a name that is not a key of the registry returns
\* {success: false, error: "Tool '<name>' not found"}, invokes no callable
\* and leaves the history as it was.
C1_NotFoundLeavesHistory ==
    [][(last'.op = "execute_tool" /\ ops' = ops + 1
        /\ last'.name \notin DOMAIN tools)
       => /\ last'.out = Return([ty |-> "dict", success |-> FALSE,
                                 error |-> "Tool '" \o last'.name \o "' not found"])
          /\ history' = history
          /\ calls' = calls]_vars

C1_Witness ==
    /\ last.op = "execute_tool"
    /\ last.name \notin DOMAIN tools
    /\ last.out.value.error = "Tool 'summarize' not found"
    /\ history # <<>>

\* C2: when the callable of a registered tool returns normally, the history
\* grows by exactly one record, {tool: name, args: kwargs, result: the value
\* returned}, placed last, and execute_tool returns that value unchanged,
\* failure-shaped or not.
C2_SuccessAppendsOneRecord ==
    [][(Invoked /\ calls'[Len(calls')].outcome.kind = "return")
       => LET v == calls'[Len(calls')].outcome.value IN
          /\ Len(history') = Len(history) + 1
          /\ SubSeq(history', 1, Len(history)) = history
          /\ history'[Len(history')] =
                [tool |-> last'.name, args |-> last'.args, result |-> v]
          /\ last'.out = Return(v)]_vars

\* a fetch that returned a failure value is recorded and returned as it is
C2_Witness ==
    /\ last.op = "execute_tool"
    /\ last.name = "fetch"
    /\ Len(history) = 2
    /\ LastCall.outcome.kind = "return"
    /\ last.out.value.ty = "dict"
    /\ last.out.value.success = FALSE
    /\ history[2].result = last.out.value

\* C3: when the callable of a registered tool raises an exception,
\* execute_tool returns {success: false, error: "Tool failed: <message>"}
\* and the history stays exactly as it was.
C3_FailureLeavesHistory ==
    [][(Invoked /\ calls'[Len(calls')].outcome.kind = "raise")
       => /\ last'.out =
                Return([ty |-> "dict", success |-> FALSE,
                        error |-> "Tool failed: "
                                  \o calls'[Len(calls')].outcome.exc.msg])
          /\ history' = history]_vars

C3_Witness ==
    /\ last.op = "execute_tool"
    /\ last.name \in DOMAIN tools
    /\ LastCall.outcome.kind = "raise"
    /\ last.out.value.error = "Tool failed: boom"
    /\ history # <<>>

RECURSIVE ReturnedCalls(_)
\* The records of the invocations in c that returned normally, in order.
ReturnedCalls(c) ==
    IF c = <<>> THEN <<>>
    ELSE IF Head(c).outcome.kind = "return"
    THEN <<[tool |-> Head(c).tool, args |-> Head(c).args,
            result |-> Head(c).outcome.value]>> \o ReturnedCalls(Tail(c))
    ELSE ReturnedCalls(Tail(c))

\* C4: the history is exactly the records of the normally-returning
\* invocations made since construction or the last reset, in invocation
\* order: it starts empty, a step never reorders, removes or alters the
\* records it holds unless the step is reset, and its length decreases only
\* through reset, which makes it empty.
C4_HistoryIsTheLedger ==
    /\ history = <<>>
    /\ [](history = ReturnedCalls(calls))
    /\ [][/\ last'.op # "reset" =>
               /\ Len(history') >= Len(history)
               /\ SubSeq(history', 1, Len(history)) = history
          /\ Len(history') < Len(history) =>
               /\ last'.op = "reset"
               /\ history' = <<>>]_vars

\* two recorded invocations with one that raised between them
C4_Witness ==
    /\ Len(calls) = 3
    /\ calls[2].outcome.kind = "raise"
    /\ Len(history) = 2
    /\ history[1].tool = "search"
    /\ history[2].tool = "fetch"

\* The invocations the run of research just finished made, in order.
RunCalls == SubSeq(calls, last.cbase + 1, Len(calls))

\* What the search step of that run yielded: the outcome of the callable.
Searched == RunCalls[1].outcome

\* The run went past the search step: the search yielded a sequence whose
\* first element has a URL.
PastSearch ==
    /\ Searched.kind = "return"
    /\ Searched.value.ty = "list"
    /\ Searched.value.items # <<>>
    /\ Searched.value.items[1].url # ""

\* The results the loop of that run visits.
Visited == SliceTo(Searched.value.items, last.num_sources)

\* C5: if the search step yields an empty sequence, or a sequence whose
\* first element has url = "", research returns sources = [], findings = []
\* and summary = "No results found", and invokes neither fetch nor
\* extract_text.
C5_NoResultsEndsTheRun ==
    (last.op = "research"
     /\ Searched.kind = "return"
     /\ Searched.value.ty = "list"
     /\ (Searched.value.items = <<>> \/ Searched.value.items[1].url = ""))
    => /\ last.out = Return([ty |-> "dict", question |-> last.question,
                             sources |-> <<>>, findings |-> <<>>,
                             summary |-> "No results found"])
       /\ Len(RunCalls) = 1
       /\ RunCalls[1].tool = "search"

\* the sentinel record of a search that found nothing, with num_sources = 2
C5_Witness ==
    /\ last.op = "research"
    /\ last.num_sources = 2
    /\ Searched.kind = "return"
    /\ Searched.value.ty = "list"
    /\ Len(Searched.value.items) = 1
    /\ Searched.value.items[1].url = ""
    /\ last.out.value.summary = "No results found"

\* C6: in every result research returns, sources and findings have the same
\* length, sources[i] and findings[i] name the same search result, and every
\* entry is a result whose fetch succeeded and whose extraction succeeded:
\* findings[i].text is the text an extract_text invocation returned.
C6_FindingsAreExtractedText ==
    (last.op = "research" /\ last.out.kind = "return")
    => LET sources == last.out.value.sources
           findings == last.out.value.findings
       IN  /\ Len(sources) = Len(findings)
           /\ \A i \in 1..Len(findings) :
                 /\ sources[i].title = findings[i].source
                 /\ sources[i].url = findings[i].url
                 /\ \E k \in 1..Len(RunCalls) :
                       /\ RunCalls[k].tool = "fetch"
                       /\ RunCalls[k].args.url = findings[i].url
                       /\ RunCalls[k].outcome.kind = "return"
                       /\ RunCalls[k].outcome.value.ty = "dict"
                       /\ RunCalls[k].outcome.value.success
                 /\ \E k \in 1..Len(RunCalls) :
                       /\ RunCalls[k].tool = "extract_text"
                       /\ RunCalls[k].outcome.kind = "return"
                       /\ RunCalls[k].outcome.value = findings[i].text

\* The fetches of the run, in order.
FetchCalls == SelectSeq(RunCalls, LAMBDA k : k.tool = "fetch")

FetchSucceeded(k) ==
    /\ k.outcome.kind = "return"
    /\ k.outcome.value.ty = "dict"
    /\ k.outcome.value.success

RECURSIVE Kept(_, _)
\* The results among rs whose fetch, the one at the same place in fs,
\* succeeded.
Kept(rs, fs) ==
    IF rs = <<>> THEN <<>>
    ELSE IF FetchSucceeded(Head(fs))
    THEN <<[source |-> Head(rs).title, url |-> Head(rs).url]>>
         \o Kept(Tail(rs), Tail(fs))
    ELSE Kept(Tail(rs), Tail(fs))

\* C7: a failed fetch does not end the run: every one of the first
\* num_sources results is fetched, in search order, and findings lists, in
\* that order, exactly the results whose fetch succeeded.
C7_FailedFetchIsSkipped ==
    (last.op = "research" /\ last.out.kind = "return" /\ PastSearch)
    => /\ Len(FetchCalls) = Len(Visited)
       /\ \A i \in 1..Len(Visited) : FetchCalls[i].args.url = Visited[i].url
       /\ [i \in 1..Len(last.out.value.findings) |->
              [source |-> last.out.value.findings[i].source,
               url |-> last.out.value.findings[i].url]]
          = Kept(Visited, FetchCalls)

\* two results, the first fetch fails and the second succeeds
C7_Witness ==
    /\ last.op = "research"
    /\ last.out.kind = "return"
    /\ PastSearch
    /\ Len(Visited) = 2
    /\ ~FetchSucceeded(FetchCalls[1])
    /\ FetchSucceeded(FetchCalls[2])
    /\ Len(last.out.value.findings) = 1
    /\ last.out.value.findings[1].url = Visited[2].url

\* C9: every call of research returns a result and never raises, whatever
\* the search, fetch and extract_text invocations did.
C9_ResearchAlwaysReturns ==
    last.op = "research" => last.out.kind = "return"

\* The closing note of the digest.
ClosingNote == "For true understanding and synthesis, consider using AI (Claude)."

\* s begins with prefix / ends with suffix.
StartsWith(s, prefix) ==
    Len(s) >= Len(prefix) /\ SubSeq(s, 1, Len(prefix)) = prefix

EndsWith(s, suffix) ==
    Len(s) >= Len(suffix)
    /\ SubSeq(s, Len(s) - Len(suffix) + 1, Len(s)) = suffix

\* C10: when the run went past the search step, empty findings give the
\* summary "No information found." with sources = [], and non-empty findings
\* give the digest (its header naming the question and the number of
\* sources, its closing note), never that string.
C10_SummaryOfEmptyFindings ==
    (last.op = "research" /\ last.out.kind = "return" /\ PastSearch)
    => LET r == last.out.value IN
       IF r.findings = <<>>
       THEN r.summary = "No information found." /\ r.sources = <<>>
       ELSE /\ r.summary # "No information found."
            /\ StartsWith(r.summary,
                  "Research Results for: '" \o last.question \o "'\n\nFound "
                  \o IntStr(Len(r.findings)) \o " source(s):\n")
            /\ EndsWith(r.summary, ClosingNote)

\* both results visited, both fetches failed
C10_Witness ==
    /\ last.op = "research"
    /\ last.out.kind = "return"
    /\ PastSearch
    /\ Len(FetchCalls) = 2
    /\ last.out.value.findings = <<>>
    /\ last.out.value.summary = "No information found."

\* The URL-bearing blocks: those the loop of search_web keeps.
HasUrl(b) ==
    /\ b.url_elem # <<>>
    /\ b.url_elem[1] # <<>>
    /\ b.url_elem[1][1] # ""

\* The request, its status or the parse of the answer fails.
ProviderFails(w) == w.post # "ok" \/ w.status >= 400 \/ w.parser # "ok"

\* C8: search_web never raises and returns a non-empty sequence: exactly one
\* sentinel record with url = "" when the provider fails or none of the
\* first num_results blocks bears a URL, and otherwise at most num_results
\* records that all have a non-empty url.
C8_SearchNeverEmpty ==
    last.op = "search_web"
    => /\ last.out.kind = "return"
       /\ last.out.value.ty = "list"
       /\ LET items == last.out.value.items
              first == SliceTo(last.w.blocks, last.num_results)
          IN  /\ items # <<>>
              /\ IF ProviderFails(last.w)
                    \/ \A i \in 1..Len(first) : ~HasUrl(first[i])
                 THEN Len(items) = 1 /\ items[1].url = ""
                 ELSE /\ Len(items) <= last.num_results
                      /\ \A i \in 1..Len(items) : items[i].url # ""

\* a URL-bearing block beyond the first num_results blocks is not returned
C8_Witness ==
    /\ last.op = "search_web"
    /\ last.num_results = 1
    /\ last.w.post = "ok"
    /\ Len(last.w.blocks) = 2
    /\ ~HasUrl(last.w.blocks[1])
    /\ HasUrl(last.w.blocks[2])
    /\ last.out.value.items[1].title = "No results found"

RECURSIVE InOrder(_, _, _)
\* The invocations cs are those of the loop over the results rs: for each
\* result in turn a fetch of its URL and, exactly when that fetch returned a
\* value with success = true, an extract_text of the content fetched, before
\* the next result's fetch. With whole, every result is reached; without,
\* the invocations may stop after any pass.
InOrder(rs, cs, whole) ==
    IF cs = <<>> THEN rs = <<>> \/ ~whole
    ELSE /\ rs # <<>>
         /\ Head(cs).tool = "fetch"
         /\ Head(cs).args = [url |-> Head(rs).url]
         /\ IF FetchSucceeded(Head(cs))
            THEN /\ Len(cs) >= 2
                 /\ cs[2].tool = "extract_text"
                 /\ cs[2].args = [html |-> Head(cs).outcome.value.content[1]]
                 /\ InOrder(Tail(rs), Tail(Tail(cs)), whole)
            ELSE InOrder(Tail(rs), Tail(cs), whole)

\* The run's first invocation is the search, with the question and
\* num_sources.
SearchFirst ==
    /\ RunCalls # <<>>
    /\ RunCalls[1].tool = "search"
    /\ RunCalls[1].args = [query |-> last.question,
                           num_results |-> last.num_sources]

\* C11 as stated: a run of research that started with an empty history and
\* went past the search step invokes one search, then for each of the first
\* num_sources results in search order a fetch and, only if that fetch
\* succeeded, an extract_text; and it leaves the history listing every one
\* of these invocations, in that order.
C11_HistoryListsEveryInvocation ==
    (last.op = "research" /\ last.out.kind = "return" /\ last.hbase = 0
     /\ PastSearch)
    => /\ SearchFirst
       /\ InOrder(Visited, Tail(RunCalls), TRUE)
       /\ Len(history) = Len(RunCalls)
       /\ \A i \in 1..Len(history) :
             /\ history[i].tool = RunCalls[i].tool
             /\ history[i].args = RunCalls[i].args

\* C11, amended: every run of research invokes one search first and then,
\* if it went past the search step, for each of the first num_sources
\* results in search order a fetch and, only if that fetch returned a value
\* with success = true, an extract_text before the next result's fetch, all
\* of them when the run returns; a run that started with an empty history
\* leaves it equal to the records of exactly those invocations whose
\* callable returned, in invocation order: a fetch that returned a failure
\* value is recorded, a fetch or extract_text that raised is not.
C11_HistoryListsReturnedInvocations ==
    last.op = "research"
    => /\ SearchFirst
       /\ IF PastSearch
          THEN InOrder(Visited, Tail(RunCalls), last.out.kind = "return")
          ELSE Len(RunCalls) = 1
       /\ last.hbase = 0 => history = ReturnedCalls(RunCalls)

\* two results: the first is fetched but its extraction raises, the second
\* fetch returns a failure value; the history holds the search and the two
\* fetches
C11_Witness ==
    /\ last.op = "research"
    /\ last.hbase = 0
    /\ PastSearch
    /\ Len(RunCalls) = 4
    /\ RunCalls[3].tool = "extract_text"
    /\ RunCalls[3].outcome.kind = "raise"
    /\ Len(history) = 3
    /\ history[2].tool = "fetch"
    /\ history[3].tool = "fetch"
    /\ history[3].result.success = FALSE

\* C12: in every result research returns, each finding's preview has length
\* at most 503: when the text has more than 500 characters the preview is
\* its first 500 characters followed by "...", 503 characters in all, and
\* otherwise the preview is the text itself, with nothing added.
C12_PreviewAtMost503 ==
    (last.op = "research" /\ last.out.kind = "return")
    => \A i \in 1..Len(last.out.value.findings) :
          LET f == last.out.value.findings[i] IN
          /\ PyLen(f.preview) <= 503
          /\ IF PyLen(f.text) > 500
             THEN /\ f.preview = PyStr(SubSeq(f.text.s, 1, 500) \o "...")
                  /\ PyLen(f.preview) = 503
             ELSE f.preview = f.text

\* two findings: a text of 600 characters with a preview of 503 that ends in
\* the ellipsis, and a text of exactly 500 characters that is its own preview
C12_Witness ==
    /\ last.op = "research"
    /\ last.out.kind = "return"
    /\ Len(last.out.value.findings) = 2
    /\ LET f == last.out.value.findings[1]
           g == last.out.value.findings[2]
       IN  /\ f.text.ty = "str"
           /\ Len(f.text.s) = 600
           /\ Len(f.preview.s) = 503
           /\ EndsWith(f.preview.s, "x...")
           /\ g.text.ty = "str"
           /\ Len(g.text.s) = 500
           /\ g.preview = g.text

====
